---- MODULE Spec2Model ----
(***************************************************************************)
(* HeritagePlatform front-end: the service worker's route table            *)
(* (src/sw/service-worker.js), the caches its strategies fill, the         *)
(* background-sync queue of contribution POSTs, and the contribution       *)
(* form's submit handler that talks to it through axios.                   *)
(*                                                                         *)
(* A request is a record: method, mode, destination, host (its labels),    *)
(* path (its non-empty segments), slash (the pathname ends with "/") and   *)
(* page (the query string has a "page" parameter).  The pathname           *)
(* "/api/v1/users/me/" is path <<"api","v1","users","me">>, slash TRUE.    *)
(***************************************************************************)
EXTENDS Naturals, Sequences, FiniteSets, TLC

VARIABLES
    online,     \* the network is reachable (a fetch can get an answer)
    navOnLine,  \* navigator.onLine as the page reads it
    token,      \* localStorage 'token': the session the page's requests carry
    cache,      \* Cache Storage: cache name -> request key -> cached body or Absent
    queue,      \* IndexedDB store of Queue 'contributionsQueue', oldest first
    last,       \* how the service worker answered the latest fetch event
    form,       \* ContributionForm.vue: the refs and the pending api.post
    explore,    \* ExploreView.vue: the filter refs and the offline-download refs
    offlineArea,\* localStorage 'hp_offline_area': the offline manifest's text
    download,   \* downloadForOffline: its locals, and what the latest call did
    indicator,  \* the computed hasOfflineBundleForCurrentQuery as rendered
    tiers,      \* the expiring caches: what workbox-expiration knows of their entries
    inflight,   \* network responses a strategy still waits for in the background
    served,     \* how an expiring cache's strategy answered the latest request
    tracker,    \* RouteProgressTracker.vue: its props stops and progress
    scoreCard   \* QualityScoreCard.vue: its model value, its refs, its events

exploreVars == <<explore, offlineArea, download, indicator>>
expiryVars == <<tiers, inflight, served>>
widgetVars == <<tracker, scoreCard>>

vars == <<online, navOnLine, token, cache, queue, last, form,
          explore, offlineArea, download, tiers, inflight, served, tracker,
          scoreCard>>

----------------------------------------------------------------------------
(* Sessions and hosts *)

\* The accounts that log in on this browser, MaxUsers of them
MaxUsers == 2
UserNames == <<"u1", "u2", "u3", "u4">>
Users == { UserNames[i] : i \in 1..MaxUsers }
NoToken == "none"
Tokens == Users \cup {NoToken}

AppHost == <<"app">>
TileHost == <<"tile", "openstreetmap", "org">>
TileSubHost == <<"a", "tile", "openstreetmap", "org">>

Methods == {"GET", "POST", "PUT", "PATCH", "DELETE"}

----------------------------------------------------------------------------
(* String operations of the route table, on the segment representation *)

\* pathname.startsWith("/" + prefix joined by "/" + "/")
StartsWithDir(req, prefix) ==
    /\ Len(req.path) >= Len(prefix)
    /\ SubSeq(req.path, 1, Len(prefix)) = prefix
    /\ (Len(req.path) > Len(prefix) \/ req.slash)

\* hostname.endsWith("." + suffix joined by ".")
HostEndsWithDot(host, suffix) ==
    /\ Len(host) > Len(suffix)
    /\ SubSeq(host, Len(host) - Len(suffix) + 1, Len(host)) = suffix

\* parts.indexOf('v1'), 1-based; 0 when absent
IndexOfV1(parts) ==
    IF \E i \in 1..Len(parts) : parts[i] = "v1"
    THEN CHOOSE i \in 1..Len(parts) :
            parts[i] = "v1" /\ \A j \in 1..(i - 1) : parts[j] # "v1"
    ELSE 0

\* apiResourceParts(pathname) ?? []
apiResourceParts(req) ==
    LET v1Index == IndexOfV1(req.path)
    IN  IF v1Index = 0 THEN <<>>
        ELSE SubSeq(req.path, v1Index + 1, Len(req.path))

isUserDataPathNoNotifications(req) ==
    \/ StartsWithDir(req, <<"api", "v1", "auth">>)
    \/ StartsWithDir(req, <<"api", "v1", "users">>)

isUserDataPath(req) ==
    \/ StartsWithDir(req, <<"api", "v1", "auth">>)
    \/ StartsWithDir(req, <<"api", "v1", "users">>)
    \/ StartsWithDir(req, <<"api", "v1", "notifications">>)

isListLike(req) == Len(apiResourceParts(req)) <= 1 \/ req.page

----------------------------------------------------------------------------
(* The precache: precacheAndRoute(self.__WB_MANIFEST) *)

\* The build's manifest: the application shell and a bundled asset.
PrecacheManifest == { <<"index.html">>, <<"assets", "app.js">> }

ShellKey == <<"index.html">>

\* pathname + ".html" (workbox's cleanURLs variation)
WithHtml(path) ==
    IF path = <<>> THEN <<>>
    ELSE [path EXCEPT ![Len(path)] = path[Len(path)] \o ".html"]

\* The precache key a request URL resolves to, <<>> when it has none: the URL
\* itself, with "index.html" appended after a trailing "/", or with ".html"
\* appended.
PrecacheKey(req) ==
    IF req.host # AppHost \/ req.page THEN <<>>
    ELSE IF ~req.slash /\ req.path \in PrecacheManifest THEN req.path
    ELSE IF req.slash /\ Append(req.path, "index.html") \in PrecacheManifest
         THEN Append(req.path, "index.html")
    ELSE IF ~req.slash /\ WithHtml(req.path) \in PrecacheManifest
         THEN WithHtml(req.path)
    ELSE <<>>

PrecacheBody(key) == IF key = ShellKey THEN "shell" ELSE "asset"

----------------------------------------------------------------------------
(* The route table, in registration order.  registerRoute(match, handler)  *)
(* is called without its third argument, so every route is registered for  *)
(* the default method GET: the router looks a request up among the routes  *)
(* registered for the request's own method.                                *)

RouteNames ==
    <<"precache", "navigation", "contributions", "user-data", "api",
      "images", "map-tiles">>

NoRoute == "none"

NavigationMatchSameOrigin(req) == req.mode = "same-origin"

NavigationMatch(req) == req.mode = "navigate"

ContributionsMatch(req) ==
    req.method = "POST" /\ StartsWithDir(req, <<"api", "v1", "contributions">>)

UserDataMatch(req) == req.method = "GET" /\ isUserDataPath(req)

ApiMatch(req) ==
    /\ req.method = "GET"
    /\ StartsWithDir(req, <<"api", "v1">>)
    /\ ~isUserDataPath(req)

ImagesMatch(req) == req.dest = "image" \/ StartsWithDir(req, <<"media">>)

MapTilesMatch(req) ==
    /\ req.dest = "image"
    /\ (req.host = TileHost \/ HostEndsWithDot(req.host, TileHost))

RouteMatches(name, req) ==
    CASE name = "precache"      -> PrecacheKey(req) # <<>>
      [] name = "navigation"    -> NavigationMatch(req)
      [] name = "contributions" -> ContributionsMatch(req)
      [] name = "user-data"     -> UserDataMatch(req)
      [] name = "api"           -> ApiMatch(req)
      [] name = "images"        -> ImagesMatch(req)
      [] name = "map-tiles"     -> MapTilesMatch(req)

\* The method each route is registered for.
RouteMethod(name) == "GET"

\* Router.findMatchingRoute: the first route, among those registered for the
\* request's method, whose matcher accepts the request.
FindMatchingRoute(req) ==
    LET hits == { i \in 1..Len(RouteNames) :
                    /\ RouteMethod(RouteNames[i]) = req.method
                    /\ RouteMatches(RouteNames[i], req) }
    IN  IF hits = {} THEN NoRoute
        ELSE RouteNames[CHOOSE i \in hits : \A j \in hits : i <= j]

----------------------------------------------------------------------------
(* The requests the pages and the browser issue *)

Req(method, mode, dest, host, path, slash, page) ==
    [method |-> method, mode |-> mode, dest |-> dest, host |-> host,
     path |-> path, slash |-> slash, page |-> page]

\* Top-level page loads: "/", the shell, a bundled asset, a client-side route,
\* an identity path opened in the address bar, and an HTML form posted to one.
Navigations ==
    { Req("GET", "navigate", "document", AppHost, p[1], p[2], FALSE) :
        p \in { << <<>>, TRUE >>,
                << <<"index.html">>, FALSE >>,
                << <<"assets", "app.js">>, FALSE >>,
                << <<"explore">>, FALSE >>,
                << <<"api", "v1", "users", "me">>, TRUE >> } }
    \cup { Req("POST", "navigate", "document", AppHost,
                <<"api", "v1", "users", "login">>, TRUE, FALSE) }

UserDataPaths ==
    { <<"api", "v1", "auth", "refresh">>,
      <<"api", "v1", "users", "me">>,
      <<"api", "v1", "notifications">> }

\* Every method on the profile path, reads of the other identity paths, and
\* an image element pointed at an identity path.
UserDataRequests ==
    { Req(m, "cors", "", AppHost, <<"api", "v1", "users", "me">>, TRUE, FALSE) :
        m \in Methods }
    \cup { Req("GET", "cors", "", AppHost, p, TRUE, FALSE) : p \in UserDataPaths }
    \cup { Req("GET", "no-cors", "image", AppHost, <<"api", "v1", "users", "me">>, TRUE, FALSE) }

ContributionPost ==
    Req("POST", "cors", "", AppHost, <<"api", "v1", "contributions">>, TRUE, FALSE)

ContributionMutations ==
    { Req(m, "cors", "", AppHost, <<"api", "v1", "contributions">>, TRUE, FALSE) :
        m \in Methods \ {"GET"} }
    \cup { Req("PATCH", "cors", "", AppHost, <<"api", "v1", "contributions", "7">>, TRUE, FALSE) }

\* contributorService.list and .get; the views that call them are behind the
\* router's requiresAuth guard.
ApiReads ==
    { Req("GET", "cors", "", AppHost, p, TRUE, FALSE) :
        p \in { <<"api", "v1", "my-contributions">>,
                <<"api", "v1", "my-contributions", "7">> } }

MediaRequests ==
    { Req("GET", "no-cors", "image", AppHost, <<"media", "a.jpg">>, FALSE, FALSE),
      Req("GET", "no-cors", "image", TileSubHost, <<"1", "2", "3.png">>, FALSE, FALSE) }

Requests ==
    Navigations \cup UserDataRequests \cup ContributionMutations
        \cup ApiReads \cup MediaRequests

NoReq == Req("", "", "", <<>>, <<>>, FALSE, FALSE)

\* The server's answers to a read the model draws from: success, failure.
Statuses == {"200", "500"}

----------------------------------------------------------------------------
(* Caches *)

CacheNames == {"api-list-v1", "api-detail-v1", "images-v1", "map-tiles-osm"}

Absent == "absent"

\* A cache is keyed by the request URL alone.
Key(req) == [host |-> req.host, path |-> req.path, slash |-> req.slash, page |-> req.page]

Keys == { Key(r) : r \in { x \in Requests : x.method = "GET" } }

NoPut == [name |-> "none", key |-> Key(NoReq), body |-> Absent]

\* What the network returns for a request sent under session tok when the
\* server answers st: a cross-origin no-cors response is opaque (status 0),
\* and an API response is the one of the session that asked.
Origin(req, tok, st) ==
    [status |-> IF req.host # AppHost THEN "0" ELSE st,
     body |-> IF StartsWithDir(req, <<"api", "v1">>) THEN tok ELSE "public"]

\* CacheableResponsePlugin({ statuses: [0, 200] })
Cacheable(resp) == resp.status \in {"0", "200"}

----------------------------------------------------------------------------
(* Strategies.  Each yields what the handler did for one fetch event:      *)
(*   network  a request was sent to the network                            *)
(*   source   where the answer came from: "network", "precache", a cache   *)
(*            name, or "error" (the handler rejected: no response)         *)
(*   put      the cache write it made, NoPut when none                     *)
(*   enqueue  the request was pushed on the background-sync queue          *)

Result(network, source, status, body, put, enqueue) ==
    [network |-> network, source |-> source, status |-> status, body |-> body,
     put |-> put, enqueue |-> enqueue]

Failed(enqueue) == Result(TRUE, "error", "", "", NoPut, enqueue)

PutIfCacheable(name, req, resp) ==
    IF Cacheable(resp)
    THEN [name |-> name, key |-> Key(req), body |-> resp.body]
    ELSE NoPut

FromNetwork(name, req, resp) ==
    Result(TRUE, "network", resp.status, resp.body, PutIfCacheable(name, req, resp), FALSE)

FromCache(name, req, network, put) ==
    Result(network, name, "200", cache[name][Key(req)], put, FALSE)

\* PrecacheController's strategy on the key the URL resolved to
PrecacheHandler(key) ==
    Result(FALSE, "precache", "200", PrecacheBody(key), NoPut, FALSE)

\* new NetworkOnly({ plugins }): with the BackgroundSyncPlugin, fetchDidFail
\* pushes the request on the queue when the fetch throws; an HTTP error
\* status is a response, not a failure.
NetworkOnly(req, resp, withQueue) ==
    IF online
    THEN Result(TRUE, "network", resp.status, resp.body, NoPut, FALSE)
    ELSE Failed(withQueue)

\* new NetworkFirst({ cacheName, networkTimeoutSeconds: 5 }): slow means the
\* network has not answered when the timeout fires.
NetworkFirst(name, req, resp, slow) ==
    LET hit == cache[name][Key(req)] # Absent
    IN  IF online
        THEN IF slow /\ hit
             THEN FromCache(name, req, TRUE, PutIfCacheable(name, req, resp))
             ELSE FromNetwork(name, req, resp)
        ELSE IF hit THEN FromCache(name, req, TRUE, NoPut)
             ELSE Failed(FALSE)

\* new StaleWhileRevalidate({ cacheName })
StaleWhileRevalidate(name, req, resp) ==
    LET hit == cache[name][Key(req)] # Absent
    IN  IF hit
        THEN FromCache(name, req, TRUE,
                       IF online THEN PutIfCacheable(name, req, resp) ELSE NoPut)
        ELSE IF online THEN FromNetwork(name, req, resp)
             ELSE Failed(FALSE)

\* new CacheFirst({ cacheName })
CacheFirst(name, req, resp) ==
    LET hit == cache[name][Key(req)] # Absent
    IN  IF hit THEN FromCache(name, req, FALSE, NoPut)
        ELSE IF online THEN FromNetwork(name, req, resp)
             ELSE Failed(FALSE)

\* The handler of the API GET route
ApiHandler(req, resp, slow) ==
    IF isListLike(req)
    THEN NetworkFirst("api-list-v1", req, resp, slow)
    ELSE StaleWhileRevalidate("api-detail-v1", req, resp)

\* The service worker's answer to a fetch event for req, issued under session
\* tok, the server answering st.  A request no route matches is not
\* intercepted: the browser sends it to the network itself.
Handle(req, tok, st, slow) ==
    LET route == FindMatchingRoute(req)
        resp == Origin(req, tok, st)
        r == CASE route = "precache"      -> PrecacheHandler(PrecacheKey(req))
               [] route = "navigation"    -> PrecacheHandler(ShellKey)
               [] route = "contributions" -> NetworkOnly(req, resp, TRUE)
               [] route = "user-data"     -> NetworkOnly(req, resp, FALSE)
               [] route = "api"           -> ApiHandler(req, resp, slow)
               [] route = "images"        -> CacheFirst("images-v1", req, resp)
               [] route = "map-tiles"     -> CacheFirst("map-tiles-osm", req, resp)
               [] OTHER                   -> NetworkOnly(req, resp, FALSE)
    IN  [route |-> route, network |-> r.network, source |-> r.source,
         status |-> r.status, body |-> r.body, put |-> r.put,
         enqueue |-> r.enqueue]

CachePut(put) ==
    IF put = NoPut THEN cache
    ELSE [cache EXCEPT ![put.name][put.key] = put.body]

\* Queue.pushRequest: the request as it was sent, appended at the tail
QueuePush(enqueue, req, tok) ==
    IF enqueue
    THEN Append(queue, [method |-> req.method, key |-> Key(req), tok |-> tok])
    ELSE queue

----------------------------------------------------------------------------
(* ExploreView.vue: the query of the current view and the offline manifest. *)
(* A JavaScript string is the sequence of its chunks, " " being white       *)
(* space; an object is the sequence of its members in insertion order; a    *)
(* JSON text is the sequence of its members' key and value tokens.          *)

JsString(chunks) == [t |-> "string", v |-> chunks]
JsTrue == [t |-> "boolean", v |-> <<"true">>]

RECURSIVE TrimStart(_)
TrimStart(str) ==
    IF str # <<>> /\ Head(str) = " " THEN TrimStart(Tail(str)) ELSE str

RECURSIVE TrimEnd(_)
TrimEnd(str) ==
    IF str # <<>> /\ str[Len(str)] = " "
    THEN TrimEnd(SubSeq(str, 1, Len(str) - 1))
    ELSE str

\* String.prototype.trim
Trim(str) == TrimEnd(TrimStart(str))

\* if (cond) params[key] = value
Param(cond, key, value) ==
    IF cond THEN << [key |-> key, value |-> value] >> ELSE << >>

\* The mutant of currentQuerySnapshot that leaves the media flags out
currentQuerySnapshotNoMedia(f) ==
       Param(Trim(f.search) # <<>>, "search", JsString(Trim(f.search)))
    \o Param(f.selectedTypeId # <<>>, "heritage_type", JsString(f.selectedTypeId))
    \o Param(f.selectedCategoryId # <<>>, "heritage_category",
             JsString(f.selectedCategoryId))
    \o Param(f.selectedParishId # <<>>, "parish", JsString(f.selectedParishId))
    \o Param(f.selectedOrdering # <<>>, "ordering", JsString(f.selectedOrdering))

\* currentQuerySnapshot: the parameters of the current view, empty ones left
\* out, in the order the computed assigns them
currentQuerySnapshot(f) ==
       Param(Trim(f.search) # <<>>, "search", JsString(Trim(f.search)))
    \o Param(f.selectedTypeId # <<>>, "heritage_type", JsString(f.selectedTypeId))
    \o Param(f.selectedCategoryId # <<>>, "heritage_category",
             JsString(f.selectedCategoryId))
    \o Param(f.selectedParishId # <<>>, "parish", JsString(f.selectedParishId))
    \o Param(f.selectedOrdering # <<>>, "ordering", JsString(f.selectedOrdering))
    \o Param(f.selectedMedia = "images", "has_images", JsTrue)
    \o Param(f.selectedMedia = "audio", "has_audio", JsTrue)
    \o Param(f.selectedMedia = "video", "has_video", JsTrue)
    \o Param(f.selectedMedia = "documents", "has_documents", JsTrue)
    \o Param(f.selectedMedia = "text", "text_only", JsTrue)

\* JSON.stringify of a string or a boolean
JsonValue(val) ==
    IF val.t = "string" THEN <<"\"">> \o val.v \o <<"\"">> ELSE val.v

\* JSON.parse of a value token
JsonParseValue(tok) ==
    IF Head(tok) = "\""
    THEN JsString(SubSeq(tok, 2, Len(tok) - 1))
    ELSE [t |-> "boolean", v |-> tok]

\* JSON.stringify of an object whose values are strings and booleans
JsonStringify(obj) ==
    [i \in DOMAIN obj |-> [key |-> obj[i].key, token |-> JsonValue(obj[i].value)]]

\* JSON.parse of such a text
JsonParse(text) ==
    [i \in DOMAIN text |-> [key |-> text[i].key, value |-> JsonParseValue(text[i].token)]]

\* localStorage.getItem(OFFLINE_AREA_STORAGE_KEY): null, a text JSON.parse
\* throws on, or the manifest text downloadForOffline wrote
NoItem == [kind |-> "null", query |-> <<>>, itemCount |-> 0]
Garbage == [kind |-> "garbage", query |-> <<>>, itemCount |-> 0]

\* JSON.stringify({ query, downloadedAt: Date.now(), itemCount }); the time
\* stamp is written and never read, and is left out.
ManifestText(query, itemCount) ==
    [kind |-> "json", query |-> JsonStringify(query), itemCount |-> itemCount]

\* hasOfflineBundleForCurrentQuery
hasOfflineBundleForCurrentQuery(raw, f) ==
    IF raw.kind = "null" THEN FALSE
    ELSE IF raw.kind = "garbage" THEN FALSE
    ELSE JsonStringify(JsonParse(raw.query)) = JsonStringify(currentQuerySnapshot(f))

\* What evaluating the computed leaves behind: its value, and whether the
\* evaluation read currentQuerySnapshot.value, which makes the query the
\* computed's dependency.  The return for a missing item and a throwing
\* JSON.parse both come before that read.
Evaluate(raw, f) ==
    [value |-> hasOfflineBundleForCurrentQuery(raw, f),
     tracked |-> raw.kind = "json"]

\* The refs currentQuerySnapshot reads
FilterRefs(f) ==
    <<f.search, f.selectedTypeId, f.selectedCategoryId, f.selectedParishId,
      f.selectedMedia, f.selectedOrdering>>

\* The template renders again after the view's refs went from before to
\* after, the item being raw: a computed that depends on the query is
\* evaluated again when a filter ref changed and keeps its value otherwise;
\* localStorage is no dependency.  A computed without any dependency is
\* evaluated again or never, as the reactivity runtime of the build has it
\* (stale).
Rerender(cached, before, after, raw, stale) ==
    IF cached.tracked
    THEN IF FilterRefs(after) # FilterRefs(before)
         THEN Evaluate(raw, after) ELSE cached
    ELSE IF stale THEN cached ELSE Evaluate(raw, after)

\* The filter refs of a view opened without query parameters, and the
\* offline-download refs
ExploreInitial ==
    [search |-> <<>>, selectedTypeId |-> <<>>, selectedCategoryId |-> <<>>,
     selectedParishId |-> <<>>, selectedMedia |-> "",
     selectedOrdering |-> <<"-created_at">>,
     offlineDownloading |-> FALSE, offlineDownloadError |-> "null"]

\* downloadForOffline before its first call: pc is where the call stands
\* ("list", "detail", "media": the await it is suspended at), outcome how the
\* latest call ended, navOnLine and before what navigator.onLine and the
\* manifest were when it was made, lists and details the requests it has
\* sent, media the items whose media it has fetched, returned the items its
\* list pages have held, serverTotal the size of the result set the server
\* holds for its query, requests the page and page_size of its list requests
\* in the order they were sent, results and next the latest page's
\* results.length and whether it had a next pointer, left the items of that
\* page the loop has not finished, mediaFailed that a media fetch of the
\* call was rejected.
NoDownload ==
    [pc |-> "idle", outcome |-> "none", navOnLine |-> TRUE, before |-> NoItem,
     baseParams |-> <<>>, page |-> 0, totalItems |-> 0, left |-> 0,
     results |-> 0, next |-> FALSE, serverTotal |-> 0, lists |-> 0,
     details |-> 0, media |-> 0, returned |-> 0, requests |-> <<>>,
     mediaFailed |-> FALSE]

pageSize == 100
maxPages == 5

\* The sizes of the result set the server holds
ResultSetSizes == {0, 101, 501}

\* data.results of page number page when the server holds total items
PageResults(total, page) ==
    IF total <= (page - 1) * pageSize THEN 0
    ELSE IF total - (page - 1) * pageSize > pageSize THEN pageSize
    ELSE total - (page - 1) * pageSize

\* data.next of that page is not null
PageHasNext(total, page) == page * pageSize < total

\* The mutant of DownloadDisabled whose button is never disabled
DownloadDisabledNever(f) == FALSE

\* The download button's :disabled="offlineDownloading"
DownloadDisabled(f) == f.offlineDownloading

\* The mutant of MustBeOnline that never refuses
MustBeOnlineNever(onLine) == FALSE

\* navigator.onLine === false
MustBeOnline(onLine) == onLine = FALSE

\* The mutant of PageLoopContinues without the page ceiling
PageLoopContinuesUnbounded(page) == TRUE

\* while (page <= maxPages)
PageLoopContinues(page) == page <= maxPages

\* The mutant of LoopBreaks that goes on to the next page whatever the page held
LoopBreaksNever(d) == FALSE

\* if (!data?.next || results.length === 0) break
LoopBreaks(d) == ~d.next \/ d.results = 0

\* params: { ...baseParams, page, page_size: pageSize }
ListRequest(d) == [page |-> d.page, page_size |-> pageSize]

\* The media URLs of an item's detail that pass the filter: here its primary
\* image and one audio file
MediaUrls == {"primary_image", "audio"}

\* The mutant of Caught that lets a rejection through
CaughtNever(settled) == settled

\* fetch(u).catch(() => null): a rejection becomes a promise resolved with null
Caught(settled) == IF settled = "rejected" THEN "null" ELSE settled

\* What the promises handed to Promise.all settle with when the fetches of
\* the URLs in failed are rejected
WarmMedia(failed) ==
    [u \in MediaUrls |->
        Caught(IF u \in failed THEN "rejected" ELSE "response")]

\* Promise.all rejects when one of its promises does
PromiseAllRejects(settled) == \E u \in DOMAIN settled : settled[u] = "rejected"

\* The mutant of BundledCount that reports the size of the result set
BundledCountOfServer(d) == d.serverTotal

\* itemCount: totalItems
BundledCount(d) == d.totalItems

----------------------------------------------------------------------------
(* The expiring caches *)

(* What workbox-expiration keeps for a cache that carries an               *)
(* ExpirationPlugin: entries, its timestamp records, least recently used   *)
(* first; the model also keeps inserted, the keys of the cached entries,   *)
(* least recently written first.  A record is                              *)
(*   key     the request URL                                               *)
(*   ver     the version of the resource the cached response holds         *)
(*   dated   the cached response has a Date header the worker can read     *)
(*   old     more than maxAgeSeconds have passed since it was written      *)
(*   tsOld   more than maxAgeSeconds have passed since its timestamp was   *)
(*           set: since it was last written or read                        *)
(*   cached  the Cache holds a response for key (a timestamp record can    *)
(*           outlive it)                                                   *)
(*   reused  it has been served from the cache while old                   *)

\* The tiers' maxEntries (200, 500, 500, 2000), scaled to the key universe
EntryCeiling == 2

\* The responses the strategies wait for in the background at one time
MaxInflight == 1

\* The versions of a resource the server answers with: an earlier and a
\* later one
Versions == {1, 2}

NoEntries == [n \in CacheNames |-> [entries |-> <<>>, inserted |-> <<>>]]

HasRecord(tier, key) == \E i \in DOMAIN tier.entries : tier.entries[i].key = key

RecordOf(tier, key) ==
    tier.entries[CHOOSE i \in DOMAIN tier.entries : tier.entries[i].key = key]

IsCached(tier, key) == HasRecord(tier, key) /\ RecordOf(tier, key).cached

CachedKeys(tier) ==
    { tier.entries[i].key : i \in { j \in DOMAIN tier.entries : tier.entries[j].cached } }

\* A response as the strategies see it; a cross-origin no-cors response is
\* opaque: status 0 and no readable header.
Response(req, st, ver) ==
    [status |-> IF req.host # AppHost THEN "0" ELSE st,
     ver |-> ver,
     dated |-> req.host = AppHost]

\* CacheExpiration.updateTimestamp(url): the URL's record gets the current
\* time; a URL without a record gets one.
updateTimestamp(tier, key) ==
    LET rec == IF HasRecord(tier, key)
               THEN [RecordOf(tier, key) EXCEPT !.tsOld = FALSE]
               ELSE [key |-> key, ver |-> 0, dated |-> FALSE, old |-> TRUE,
                     tsOld |-> FALSE, cached |-> FALSE, reused |-> FALSE]
    IN  [tier EXCEPT !.entries =
            Append(SelectSeq(tier.entries, LAMBDA e : e.key # key), rec)]

\* The mutant of expireEntries that keeps the entries written last rather
\* than the ones used last
expireEntriesByInsertion(tier) ==
    LET young == SelectSeq(tier.entries, LAMBDA e : ~e.tsOld)
        order == SelectSeq(tier.inserted,
                           LAMBDA k : \E i \in DOMAIN young : young[i].key = k)
        keys == IF Len(order) > EntryCeiling
                THEN SubSeq(order, Len(order) - EntryCeiling + 1, Len(order))
                ELSE order
        kept == SelectSeq(young, LAMBDA e : \E i \in DOMAIN keys : keys[i] = e.key)
    IN  [entries |-> kept,
         inserted |-> SelectSeq(tier.inserted,
                         LAMBDA k : \E i \in DOMAIN kept :
                                       kept[i].key = k /\ kept[i].cached)]

\* CacheExpiration.expireEntries(): the records whose timestamp is older than
\* maxAgeSeconds go, then the least recently used ones beyond maxEntries;
\* their responses are deleted from the Cache.
expireEntries(tier) ==
    LET young == SelectSeq(tier.entries, LAMBDA e : ~e.tsOld)
        kept == IF Len(young) > EntryCeiling
                THEN SubSeq(young, Len(young) - EntryCeiling + 1, Len(young))
                ELSE young
    IN  [entries |-> kept,
         inserted |-> SelectSeq(tier.inserted,
                         LAMBDA k : \E i \in DOMAIN kept :
                                       kept[i].key = k /\ kept[i].cached)]

\* cache.put, then the plugin's cacheDidUpdate: updateTimestamp, then
\* expireEntries, both awaited.
cacheDidUpdate(tier, key, resp) ==
    LET rec == [key |-> key, ver |-> resp.ver, dated |-> resp.dated,
                old |-> FALSE, tsOld |-> FALSE, cached |-> TRUE, reused |-> FALSE]
        put == [entries |-> Append(SelectSeq(tier.entries, LAMBDA e : e.key # key), rec),
                inserted |-> Append(SelectSeq(tier.inserted, LAMBDA k : k # key), key)]
    IN  expireEntries(put)

\* The mutant of cachePut that stores nothing
cachePutNothing(tier, key, resp) == tier

\* handler.cachePut: cacheWillUpdate of the CacheableResponsePlugin first
cachePut(tier, key, resp) ==
    IF Cacheable(resp) THEN cacheDidUpdate(tier, key, resp) ELSE tier

\* ExpirationPlugin._isResponseDateFresh: a response without a readable Date
\* header is taken to be fresh.
isResponseDateFresh(rec) == ~rec.dated \/ ~rec.old

\* handler.cacheMatch with the plugin's cachedResponseWillBeUsed: the
\* response is used when its Date header is fresh; expireEntries and
\* updateTimestamp are both started and not awaited, expireFirst telling
\* which of the two reaches the timestamp store first.
cacheMatch(tier, key, expireFirst) ==
    IF ~IsCached(tier, key)
    THEN [tier |-> tier, found |-> FALSE, fresh |-> FALSE, old |-> FALSE,
          reused |-> FALSE, ver |-> 0]
    ELSE LET rec == RecordOf(tier, key)
             fresh == isResponseDateFresh(rec)
             used == [tier EXCEPT !.entries =
                        [i \in DOMAIN tier.entries |->
                            IF tier.entries[i].key = key /\ fresh /\ rec.old
                            THEN [tier.entries[i] EXCEPT !.reused = TRUE]
                            ELSE tier.entries[i]]]
         IN  [tier |-> IF expireFirst
                       THEN updateTimestamp(expireEntries(used), key)
                       ELSE expireEntries(updateTimestamp(used, key)),
              found |-> TRUE, fresh |-> fresh, old |-> rec.old,
              reused |-> rec.reused, ver |-> rec.ver]

\* What a strategy of an expiring cache did for one request:
\*   tier     its cache afterwards
\*   source   "network", the cache's name, or "error"
\*   network  a request was sent to the network
\*   waited   the caller's answer waited for the network
\*   pending  the network response the strategy still waits for
Answer(tier, source, network, waited, ver, look, pending) ==
    [tier |-> tier, source |-> source, network |-> network, waited |-> waited,
     ver |-> ver, found |-> look.found, old |-> look.old, reused |-> look.reused,
     pending |-> pending]

\* new CacheFirst({ cacheName, plugins: [..., new ExpirationPlugin(...)] })
CacheFirstExpiring(name, req, resp, expireFirst) ==
    LET look == cacheMatch(tiers[name], Key(req), expireFirst)
    IN  IF look.found /\ look.fresh
        THEN Answer(look.tier, name, FALSE, FALSE, look.ver, look, {})
        ELSE IF online
        THEN Answer(cachePut(look.tier, Key(req), resp), "network", TRUE, TRUE,
                    resp.ver, look, {})
        ELSE Answer(look.tier, "error", TRUE, TRUE, 0, look, {})

\* The mutant of StaleWhileRevalidateExpiring that answers a hit without
\* revalidating
StaleWhileRevalidateExpiringCacheOnly(name, req, resp, expireFirst) ==
    LET look == cacheMatch(tiers[name], Key(req), expireFirst)
    IN  IF look.found /\ look.fresh
        THEN Answer(look.tier, name, FALSE, FALSE, look.ver, look, {})
        ELSE IF online
        THEN Answer(cachePut(look.tier, Key(req), resp), "network", TRUE, TRUE,
                    resp.ver, look, {})
        ELSE Answer(look.tier, "error", TRUE, TRUE, 0, look, {})

\* new StaleWhileRevalidate({ cacheName, plugins }): the fetch is started
\* before the cache is read; on a hit its response is put when it arrives.
StaleWhileRevalidateExpiring(name, req, resp, expireFirst) ==
    LET look == cacheMatch(tiers[name], Key(req), expireFirst)
        later == [name |-> name, key |-> Key(req), resp |-> resp]
    IN  IF look.found /\ look.fresh
        THEN Answer(look.tier, name, TRUE, FALSE, look.ver, look,
                    IF online THEN {later} ELSE {})
        ELSE IF online
        THEN Answer(cachePut(look.tier, Key(req), resp), "network", TRUE, TRUE,
                    resp.ver, look, {})
        ELSE Answer(look.tier, "error", TRUE, TRUE, 0, look, {})

\* The mutant of NetworkFirstExpiring that gives up at the timeout when the
\* cache has no answer
NetworkFirstExpiringFailsOnTimeout(name, req, resp, slow, expireFirst) ==
    LET look == cacheMatch(tiers[name], Key(req), expireFirst)
        miss == [found |-> FALSE, old |-> FALSE, reused |-> FALSE]
        later == [name |-> name, key |-> Key(req), resp |-> resp]
    IN  IF online /\ ~slow
        THEN Answer(cachePut(tiers[name], Key(req), resp), "network", TRUE, TRUE,
                    resp.ver, miss, {})
        ELSE IF look.found /\ look.fresh
        THEN Answer(look.tier, name, TRUE, FALSE, look.ver, look,
                    IF online THEN {later} ELSE {})
        ELSE Answer(look.tier, "error", TRUE, TRUE, 0, look, {})

\* new NetworkFirst({ cacheName, networkTimeoutSeconds: 5, plugins }): slow
\* means the timeout fires before the network has answered.  The cache is
\* read at the timeout, or when the fetch has failed; a timeout that finds
\* nothing usable in the cache leaves the caller waiting for the network.
NetworkFirstExpiring(name, req, resp, slow, expireFirst) ==
    LET look == cacheMatch(tiers[name], Key(req), expireFirst)
        miss == [found |-> FALSE, old |-> FALSE, reused |-> FALSE]
        later == [name |-> name, key |-> Key(req), resp |-> resp]
    IN  IF online /\ ~slow
        THEN Answer(cachePut(tiers[name], Key(req), resp), "network", TRUE, TRUE,
                    resp.ver, miss, {})
        ELSE IF look.found /\ look.fresh
        THEN Answer(look.tier, name, TRUE, FALSE, look.ver, look,
                    IF online THEN {later} ELSE {})
        ELSE IF online
        THEN Answer(cachePut(look.tier, Key(req), resp), "network", TRUE, TRUE,
                    resp.ver, look, {})
        ELSE Answer(look.tier, "error", TRUE, TRUE, 0, look, {})

\* The cache a route's strategy works on
TierName(req) ==
    LET route == FindMatchingRoute(req)
    IN  CASE route = "api" ->
               IF isListLike(req) THEN "api-list-v1" ELSE "api-detail-v1"
          [] route = "images" -> "images-v1"
          [] route = "map-tiles" -> "map-tiles-osm"
          [] OTHER -> "none"

\* The strategy of the route that matches req, applied to the expiring caches
HandleExpiring(req, resp, slow, expireFirst) ==
    LET name == TierName(req)
    IN  CASE name = "api-list-v1" ->
               NetworkFirstExpiring(name, req, resp, slow, expireFirst)
          [] name = "api-detail-v1" ->
               StaleWhileRevalidateExpiring(name, req, resp, expireFirst)
          [] OTHER -> CacheFirstExpiring(name, req, resp, expireFirst)

NoService ==
    [req |-> NoReq, tier |-> "none", source |-> "", network |-> FALSE,
     waited |-> FALSE, slow |-> FALSE, status |-> "", ver |-> 0,
     found |-> FALSE, old |-> FALSE, reused |-> FALSE, online |-> TRUE,
     stored |-> FALSE, evicted |-> {}]

----------------------------------------------------------------------------
(* JavaScript numbers *)

\* A Number is an IEEE 754 double.  A positive one is kept as its 53
\* significand bits, cut into three limbs (hi: the first 17 bits, the first
\* of them 1; mid and lo: 18 bits each), and its biased exponent: the value
\* is (hi * 2^36 + mid * 2^18 + lo) * 2^(exp - ExponentBias - 52).
\* The operators are exact for the integers below 2^13 and their quotients,
\* which is all the views compute with.
ExponentBias == 1023
Limb == 2^18
Leading == 2^16
Zero == [hi |-> 0, mid |-> 0, lo |-> 0, exp |-> 0]

\* Round to nearest, ties to even: 'guard' is the first bit cut off, 'sticky'
\* says that a 1 follows it
RoundToNearestEven(hi, mid, lo, guard, sticky, exp) ==
    LET up == guard = 1 /\ (sticky \/ lo % 2 = 1)
        lo1 == (lo + 1) % Limb
        mid1 == (mid + (lo + 1) \div Limb) % Limb
        hi1 == hi + (mid + (lo + 1) \div Limb) \div Limb
    IN  IF ~up THEN [hi |-> hi, mid |-> mid, lo |-> lo, exp |-> exp]
        ELSE IF hi1 < 2 * Leading
             THEN [hi |-> hi1, mid |-> mid1, lo |-> lo1, exp |-> exp]
             ELSE [hi |-> Leading, mid |-> 0, lo |-> 0, exp |-> exp + 1]

\* The least k with a * 2^k >= b
RECURSIVE ShiftToReach(_, _)
ShiftToReach(a, b) == IF a >= b THEN 0 ELSE 1 + ShiftToReach(2 * a, b)

\* a / b for integers a >= 0 and b > 0: the quotient's first 53 bits by long
\* division, a limb at a time, then rounded
Divide(a, b) ==
    IF a = 0 THEN Zero
    ELSE LET up == ShiftToReach(a, b)            \* a * 2^up / b is in [1, 2)
             down == ShiftToReach(2 * b, a + 1)  \* a / (b * 2^down) is in [1, 2)
             num == a * 2^up
             den == b * 2^down
             hi == (num * Leading) \div den
             r1 == (num * Leading) % den
             mid == (r1 * Limb) \div den
             r2 == (r1 * Limb) % den
             lo == (r2 * Limb) \div den
             r3 == (r2 * Limb) % den
         IN  RoundToNearestEven(hi, mid, lo, (2 * r3) \div den,
                                (2 * r3) % den # 0,
                                (ExponentBias + down) - up)

\* x * k for an integer 0 < k < 2^12: the exact product, cut back to 53 bits
\* and rounded
Multiply(x, k) ==
    IF x = Zero THEN Zero
    ELSE LET lo == (x.lo * k) % Limb
             p1 == x.mid * k + (x.lo * k) \div Limb
             mid == p1 % Limb
             top == x.hi * k + p1 \div Limb
             s == ShiftToReach(2 * Leading, top + 1)  \* the bits 'top' has too many
             cut == 2^s
             keep == Limb \div cut
         IN  IF s = 0
             THEN [hi |-> top, mid |-> mid, lo |-> lo, exp |-> x.exp]
             ELSE RoundToNearestEven(top \div cut,
                                     (top % cut) * keep + mid \div cut,
                                     (mid % cut) * keep + lo \div cut,
                                     (lo \div (cut \div 2)) % 2,
                                     lo % (cut \div 2) # 0,
                                     x.exp + s)

\* Math.round for a number below 2^16: the nearest integer, a half rounding up
MathRound(x) ==
    IF x = Zero \/ x.exp + 1 < ExponentBias THEN 0
    ELSE IF x.exp + 1 = ExponentBias THEN 1
    ELSE LET fraction == 2^(16 - (x.exp - ExponentBias))
         IN  (x.hi \div fraction) + ((x.hi \div (fraction \div 2)) % 2)

----------------------------------------------------------------------------
(* RouteProgressTracker.vue *)

\* A stop is modelled by its id, a positive number; NoStop is null.  The
\* progress record is modelled by its visited_stops, a list of stops.
NoStop == 0

visitedIds(visited) == { visited[i] : i \in 1..Len(visited) }

\* total
totalStops(stops) == Len(stops)

visitedCount(visited) == Len(visited)

\* Math.round((visitedCount / total) * 100), in the doubles JavaScript
\* computes with; 0 when total is 0
percent(stops, visited) ==
    IF totalStops(stops) = 0 THEN 0
    ELSE MathRound(Multiply(Divide(visitedCount(visited), totalStops(stops)), 100))

\* props.stops.find((s) => !visitedIds.has(s.id)) || null
nextStop(stops, visited) ==
    LET open == { i \in 1..Len(stops) : stops[i] \notin visitedIds(visited) }
    IN  IF open = {} THEN NoStop
        ELSE stops[CHOOSE i \in open : \A j \in open : i <= j]

\* What the template renders of a tracker: the summary's three numbers, the
\* 'next' line (else the 'all visited' line), and the two buttons
Rendered(t) ==
    [visited |-> visitedCount(t.visited),
     total |-> totalStops(t.stops),
     percent |-> percent(t.stops, t.visited),
     next |-> nextStop(t.stops, t.visited),
     allVisited |-> nextStop(t.stops, t.visited) = NoStop,
     checkIn |-> nextStop(t.stops, t.visited) # NoStop,
     skip |-> nextStop(t.stops, t.visited) # NoStop]

\* No route is shown
NoTracker == [stops |-> <<>>, visited |-> <<>>]

----------------------------------------------------------------------------
(* QualityScoreCard.vue *)

\* The values the card's refs hold: a number (v is <<n>>), or the string an
\* <input type="range"> hands to v-model (v is its decimal digits)
JsNumber(n) == [t |-> "number", v |-> <<n>>]
JsNull == [t |-> "null", v |-> <<>>]

\* The decimal digits of a natural number, as String(n) writes them
RECURSIVE Digits(_)
Digits(n) == IF n < 10 THEN <<n>> ELSE Append(Digits(n \div 10), n % 10)

\* The number a string of decimal digits reads as; the empty string reads as 0
RECURSIVE ParseDigits(_)
ParseDigits(str) ==
    IF str = <<>> THEN 0
    ELSE 10 * ParseDigits(SubSeq(str, 1, Len(str) - 1)) + str[Len(str)]

\* The mutant of Number that hands its argument on as it is
NumberVerbatim(val) == val

\* Number(value)
Number(val) ==
    IF val.t = "number" THEN val
    ELSE IF val.t = "string" THEN JsNumber(ParseDigits(val.v))
    ELSE JsNumber(0)

\* value ?? 0
OrZero(val) == IF val.t = "null" THEN JsNumber(0) ELSE val

\* a + b: the sum of two numbers, else the two written one after the other
JsPlus(a, b) ==
    IF a.t = "number" /\ b.t = "number" THEN JsNumber(a.v[1] + b.v[1])
    ELSE JsString((IF a.t = "number" THEN Digits(a.v[1]) ELSE a.v)
                  \o (IF b.t = "number" THEN Digits(b.v[1]) ELSE b.v))

\* The computed 'total' of a card
totalScore(card) ==
    JsPlus(JsPlus(Number(card.completeness), Number(card.accuracy)),
           Number(card.media))

\* The payload of update:modelValue: props.modelValue with the scores, the
\* total and the notes replaced
UpdateModelValue(card) ==
    [completeness_score |-> Number(card.completeness),
     accuracy_score |-> Number(card.accuracy),
     media_quality_score |-> Number(card.media),
     total_score |-> totalScore(card),
     notes |-> card.notes]

\* watch(() => props.modelValue, ...): the refs take the new model value's
\* fields
ModelValueChanged(card, v) ==
    [card EXCEPT !.modelValue = v,
                 !.completeness = OrZero(v.completeness_score),
                 !.accuracy = OrZero(v.accuracy_score),
                 !.media = OrZero(v.media_quality_score),
                 !.notes = v.notes]

Refs(card) == <<card.completeness, card.accuracy, card.media, card.notes>>

\* watch([completeness, accuracy, media, notes], ...) after the refs changed
\* from 'before': the card emits update:modelValue, the review view's v-model
\* assigns the payload to score, and the card's props watcher runs on it;
\* again while that changes a ref
RECURSIVE RefsChanged(_, _)
RefsChanged(card, before) ==
    IF Refs(card) = before THEN card
    ELSE LET payload == UpdateModelValue(card)
             emitted == [card EXCEPT !.emitted = Append(@, payload)]
         IN  RefsChanged(ModelValueChanged(emitted, payload), Refs(card))

\* The review view's initial score, and the card mounted on it
InitialScore ==
    [completeness_score |-> JsNumber(0), accuracy_score |-> JsNumber(0),
     media_quality_score |-> JsNumber(0), total_score |-> JsNull,
     notes |-> ""]

ScoreCardMounted ==
    [modelValue |-> InitialScore,
     completeness |-> OrZero(InitialScore.completeness_score),
     accuracy |-> OrZero(InitialScore.accuracy_score),
     media |-> OrZero(InitialScore.media_quality_score),
     notes |-> InitialScore.notes,
     emitted |-> <<>>]

\* The sliders' max attributes
MaxCompleteness == 40
MaxAccuracy == 30
MaxMedia == 30

----------------------------------------------------------------------------
(* State *)

Observed(req, tok, h) ==
    [req |-> req, tok |-> tok, route |-> h.route, network |-> h.network,
     source |-> h.source, body |-> h.body,
     stored |-> h.put.name, enqueued |-> h.enqueue]

NoFetch ==
    [req |-> NoReq, tok |-> NoToken, route |-> NoRoute, network |-> FALSE,
     source |-> "", body |-> "", stored |-> "none",
     enqueued |-> FALSE]

\* The form before a submission: pc is where submitContribution stands, resp
\* what api.post settled with ("neterr": the request got no response).
FormIdle ==
    [pc |-> "idle", resp |-> "none", retried |-> FALSE, submitting |-> FALSE,
     submittedSuccess |-> FALSE, queuedOffline |-> FALSE, alerted |-> FALSE]

Init ==
    /\ online = TRUE
    /\ navOnLine = TRUE
    /\ token = NoToken
    /\ cache = [n \in CacheNames |-> [k \in Keys |-> Absent]]
    /\ queue = <<>>
    /\ last = NoFetch
    /\ form = FormIdle
    /\ explore = ExploreInitial
    /\ offlineArea = NoItem
    /\ download = NoDownload
    /\ indicator = Evaluate(offlineArea, explore)
    /\ tiers = NoEntries
    /\ inflight = {}
    /\ served = NoService
    /\ tracker = NoTracker
    /\ scoreCard = ScoreCardMounted

----------------------------------------------------------------------------
(* Environment *)

\* The network becomes reachable or unreachable.
ConnectivityChange ==
    /\ online' = ~online
    /\ UNCHANGED <<navOnLine, token, cache, queue, last, form>>
    /\ UNCHANGED <<exploreVars, expiryVars, widgetVars>>

\* The browser's online flag flips; it follows the network interface, not
\* whether the server can be reached.
NavigatorOnLineChange ==
    /\ navOnLine' = ~navOnLine
    /\ UNCHANGED <<online, token, cache, queue, last, form>>
    /\ UNCHANGED <<exploreVars, expiryVars, widgetVars>>

\* setAuth(newToken, newUser)
Login(u) ==
    /\ token' = u
    /\ UNCHANGED <<online, navOnLine, cache, queue, last, form>>
    /\ UNCHANGED <<exploreVars, expiryVars, widgetVars>>

\* logout()
Logout ==
    /\ token # NoToken
    /\ token' = NoToken
    /\ UNCHANGED <<online, navOnLine, cache, queue, last, form>>
    /\ UNCHANGED <<exploreVars, expiryVars, widgetVars>>

----------------------------------------------------------------------------
(* The service worker's fetch listener *)

FetchEvent(req, st, slow) ==
    LET h == Handle(req, token, st, slow)
    IN  /\ req \in ApiReads => token \in Users
        /\ cache' = CachePut(h.put)
        /\ queue' = QueuePush(h.enqueue, req, token)
        /\ last' = Observed(req, token, h)
        /\ UNCHANGED <<online, navOnLine, token, form>>
        /\ UNCHANGED <<exploreVars, expiryVars, widgetVars>>

----------------------------------------------------------------------------
(* ContributionForm.vue: submitContribution, through the axios instance *)

\* The server's answers to a contribution POST.
MutationStatuses == {"201", "400", "401", "500"}

\* What api.post sees of one attempt: the response's status, or "neterr"
\* when the request got no response.
Settled(h) == IF h.source = "error" THEN "neterr" ELSE h.status

\* submitting = true; await api.post('/contributions/', contribution)
Submit(st) ==
    LET h == Handle(ContributionPost, token, st, FALSE)
    IN  /\ form.pc = "idle"
        /\ ~form.submitting
        /\ ~form.submittedSuccess
        /\ form' = [form EXCEPT !.pc = "awaiting", !.submitting = TRUE,
                                !.resp = Settled(h), !.retried = FALSE,
                                !.alerted = FALSE]
        /\ queue' = QueuePush(h.enqueue, ContributionPost, token)
        /\ cache' = CachePut(h.put)
        /\ UNCHANGED <<online, navOnLine, token, last>>
        /\ UNCHANGED <<exploreVars, expiryVars, widgetVars>>

\* The response interceptor on a 401: the token is removed and the request
\* is sent once more, now without it.
Retry401(st) ==
    LET h == Handle(ContributionPost, NoToken, st, FALSE)
    IN  /\ form.pc = "awaiting"
        /\ form.resp = "401"
        /\ ~form.retried
        /\ token' = NoToken
        /\ form' = [form EXCEPT !.resp = Settled(h), !.retried = TRUE]
        /\ queue' = QueuePush(h.enqueue, ContributionPost, NoToken)
        /\ cache' = CachePut(h.put)
        /\ UNCHANGED <<online, navOnLine, last>>
        /\ UNCHANGED <<exploreVars, expiryVars, widgetVars>>

\* axios resolves on a 2xx status and rejects otherwise.
Resolved(resp) == resp = "201"

\* The rest of submitContribution: the lines after the await, the catch
\* block, and finally.
SubmitSettle ==
    /\ form.pc = "awaiting"
    /\ ~(form.resp = "401" /\ ~form.retried)
    /\ form' =
         IF Resolved(form.resp)
         THEN [form EXCEPT !.pc = "idle", !.submitting = FALSE,
                           !.queuedOffline = FALSE, !.submittedSuccess = TRUE]
         ELSE IF navOnLine = FALSE
         THEN [form EXCEPT !.pc = "idle", !.submitting = FALSE,
                           !.queuedOffline = TRUE, !.submittedSuccess = TRUE]
         ELSE [form EXCEPT !.pc = "idle", !.submitting = FALSE,
                           !.alerted = TRUE]
    /\ token' = IF form.resp = "401" THEN NoToken ELSE token
    /\ UNCHANGED <<online, navOnLine, cache, queue, last>>
    /\ UNCHANGED <<exploreVars, expiryVars, widgetVars>>

\* resetForm ("submit another")
ResetForm ==
    /\ form.submittedSuccess
    /\ form' = FormIdle
    /\ UNCHANGED <<online, navOnLine, token, cache, queue, last>>
    /\ UNCHANGED <<exploreVars, expiryVars, widgetVars>>

----------------------------------------------------------------------------
(* ExploreView.vue: the filters and downloadForOffline *)

\* The search box is edited.
SetSearch(str) ==
    /\ explore' = [explore EXCEPT !.search = str]
    /\ \E stale \in BOOLEAN :
          indicator' = Rerender(indicator, explore, explore', offlineArea, stale)
    /\ UNCHANGED <<online, navOnLine, token, cache, queue, last, form>>
    /\ UNCHANGED <<offlineArea, download, expiryVars, widgetVars>>

\* The type, category, parish, media or ordering select is changed.
SetFilter(typeId, categoryId, parishId, mediaKind, ordering) ==
    /\ explore' = [explore EXCEPT !.selectedTypeId = typeId,
                                  !.selectedCategoryId = categoryId,
                                  !.selectedParishId = parishId,
                                  !.selectedMedia = mediaKind,
                                  !.selectedOrdering = ordering]
    /\ \E stale \in BOOLEAN :
          indicator' = Rerender(indicator, explore, explore', offlineArea, stale)
    /\ UNCHANGED <<online, navOnLine, token, cache, queue, last, form>>
    /\ UNCHANGED <<offlineArea, download, expiryVars, widgetVars>>

\* The loop is left normally: the manifest is written, then finally.
Finish(d) ==
    /\ offlineArea' = ManifestText(currentQuerySnapshot(explore), BundledCount(d))
    /\ explore' = [explore EXCEPT !.offlineDownloading = FALSE]
    /\ download' = [d EXCEPT !.pc = "idle", !.outcome = "completed"]
    /\ \E stale \in BOOLEAN :
          indicator' = Rerender(indicator, explore, explore', offlineArea', stale)

\* The mutant of Abort whose catch block removes the stored manifest
AbortClearing(d) ==
    /\ explore' = [explore EXCEPT
                      !.offlineDownloadError = "explore.offline.downloadError",
                      !.offlineDownloading = FALSE]
    /\ download' = [d EXCEPT !.pc = "idle", !.outcome = "failed"]
    /\ \E stale \in BOOLEAN :
          indicator' = Rerender(indicator, explore, explore', NoItem, stale)
    /\ offlineArea' = NoItem

\* An awaited api.get rejected: catch, then finally.
Abort(d) ==
    /\ explore' = [explore EXCEPT
                      !.offlineDownloadError = "explore.offline.downloadError",
                      !.offlineDownloading = FALSE]
    /\ download' = [d EXCEPT !.pc = "idle", !.outcome = "failed"]
    /\ \E stale \in BOOLEAN :
          indicator' = Rerender(indicator, explore, explore', offlineArea, stale)
    /\ UNCHANGED offlineArea

\* The call is suspended at its next await.
Suspend(d) ==
    /\ download' = d
    /\ UNCHANGED <<explore, offlineArea, indicator>>

\* The loop body's first statements for the next item of the page:
\* totalItems += 1, and the detail request is sent.
NextItem(d) ==
    [d EXCEPT !.pc = "detail", !.totalItems = @ + 1, !.details = @ + 1]

\* The top of the while loop: the list request for d.page is sent, or the
\* loop is over.
NextPage(d) ==
    IF PageLoopContinues(d.page)
    THEN Suspend([d EXCEPT !.pc = "list", !.lists = @ + 1,
                           !.requests = Append(@, ListRequest(d))])
    ELSE Finish(d)

\* The end of the loop body, after the page's items: break, or page += 1
EndOfPage(d) ==
    IF LoopBreaks(d) THEN Finish(d) ELSE NextPage([d EXCEPT !.page = @ + 1])

\* The download button is pressed; it is disabled while offlineDownloading.
\* total is the size of the result set the server holds for the query.
DownloadForOffline(total) ==
    /\ ~DownloadDisabled(explore)
    /\ IF MustBeOnline(navOnLine)
       THEN /\ explore' = [explore EXCEPT
                              !.offlineDownloadError = "explore.offline.mustBeOnline"]
            /\ download' = [NoDownload EXCEPT !.outcome = "refused",
                                              !.navOnLine = navOnLine,
                                              !.before = offlineArea]
            /\ UNCHANGED offlineArea
       ELSE /\ explore' = [explore EXCEPT !.offlineDownloadError = "null",
                                          !.offlineDownloading = TRUE]
            /\ download' = [NoDownload EXCEPT
                               !.pc = "list", !.outcome = "running",
                               !.navOnLine = navOnLine, !.before = offlineArea,
                               !.baseParams = currentQuerySnapshot(explore),
                               !.page = 1, !.serverTotal = total, !.lists = 1,
                               !.requests = <<[page |-> 1, page_size |-> pageSize]>>]
            /\ UNCHANGED offlineArea
    /\ \E stale \in BOOLEAN :
          indicator' = Rerender(indicator, explore, explore', offlineArea, stale)
    /\ UNCHANGED <<online, navOnLine, token, cache, queue, last, form, expiryVars, widgetVars>>

\* await api.get('/heritage-items/', ...) settles: ok, with the page's
\* results, or rejected.
ListResponds(ok) ==
    /\ download.pc = "list"
    /\ IF ~ok THEN Abort(download)
       ELSE LET n == PageResults(download.serverTotal, download.page)
                d == [download EXCEPT
                         !.left = n, !.results = n, !.returned = @ + n,
                         !.next = PageHasNext(download.serverTotal, download.page)]
            IN  IF n = 0 THEN EndOfPage(d) ELSE Suspend(NextItem(d))
    /\ UNCHANGED <<online, navOnLine, token, cache, queue, last, form, expiryVars, widgetVars>>

\* await api.get(`/heritage-items/${listItem.id}/`) settles; when ok the
\* item's media URLs are fetched.
DetailResponds(ok) ==
    /\ download.pc = "detail"
    /\ IF ~ok THEN Abort(download)
       ELSE Suspend([download EXCEPT !.pc = "media", !.media = @ + 1])
    /\ UNCHANGED <<online, navOnLine, token, cache, queue, last, form, expiryVars, widgetVars>>

\* await Promise.all(...) settles, the fetches of the URLs in failed
\* rejected: the next item, or the end of the page.
MediaSettles(failed) ==
    /\ download.pc = "media"
    /\ LET d == [download EXCEPT !.left = @ - 1,
                                 !.mediaFailed = @ \/ failed # {}]
       IN  IF PromiseAllRejects(WarmMedia(failed)) THEN Abort(download)
           ELSE IF d.left > 0 THEN Suspend(NextItem(d)) ELSE EndOfPage(d)
    /\ UNCHANGED <<online, navOnLine, token, cache, queue, last, form, expiryVars, widgetVars>>

----------------------------------------------------------------------------
(* The fetch listener, the expiring caches in view *)

\* The keys a step removed from a cache for the entry ceiling, not for age
EvictedKeys(before, after) ==
    { k \in CachedKeys(before) \ CachedKeys(after) : ~RecordOf(before, k).tsOld }

\* A fetch event for req: the server answers st with version ver of the
\* resource; slow and expireFirst as in the strategies.  served keeps what
\* the strategy did: found, old and reused are what cacheMatch saw of the
\* entry, online whether the network could be reached, stored whether the
\* cache holds the answer under the request's key afterwards, evicted the
\* keys the entry ceiling removed.
Fetch(req, st, ver, slow, expireFirst) ==
    LET name == TierName(req)
        resp == Response(req, st, ver)
    IN  \E a \in {HandleExpiring(req, resp, slow, expireFirst)} :
          /\ Cardinality(inflight \cup a.pending) <= MaxInflight
          /\ tiers' = [tiers EXCEPT ![name] = a.tier]
          /\ inflight' = inflight \cup a.pending
          /\ served' = [req |-> req, tier |-> name, source |-> a.source,
                        network |-> a.network, waited |-> a.waited, slow |-> slow,
                        status |-> IF a.source = "network" THEN resp.status ELSE "",
                        ver |-> a.ver, found |-> a.found, old |-> a.old,
                        reused |-> a.reused, online |-> online,
                        stored |-> /\ IsCached(a.tier, Key(req))
                                   /\ RecordOf(a.tier, Key(req)).ver = a.ver,
                        evicted |-> EvictedKeys(tiers[name], a.tier)]
          /\ UNCHANGED <<online, navOnLine, token, cache, queue, last, form>>
          /\ UNCHANGED <<exploreVars, widgetVars>>

\* The response a strategy left behind arrives, after the caller was
\* answered from the cache: it is put in the cache.
ResponseArrives(p) ==
    /\ p \in inflight
    /\ online
    /\ tiers' = [tiers EXCEPT ![p.name] = cachePut(tiers[p.name], p.key, p.resp)]
    /\ inflight' = inflight \ {p}
    /\ UNCHANGED <<online, navOnLine, token, cache, queue, last, form>>
    /\ UNCHANGED <<exploreVars, served, widgetVars>>

\* The network went away before that response arrived: the fetch rejects.
ResponseLost(p) ==
    /\ p \in inflight
    /\ ~online
    /\ inflight' = inflight \ {p}
    /\ UNCHANGED <<online, navOnLine, token, cache, queue, last, form>>
    /\ UNCHANGED <<exploreVars, tiers, served, widgetVars>>

\* Time passes: the least recently written entry of a cache that is not yet
\* old is now older than the cache's maxAgeSeconds.
AgePastMaxAge(name) ==
    LET tier == tiers[name]
        young == SelectSeq(tier.inserted, LAMBDA k : ~RecordOf(tier, k).old)
    IN  /\ young # <<>>
        /\ tiers' = [tiers EXCEPT ![name].entries =
              [i \in DOMAIN tier.entries |->
                  IF tier.entries[i].key = Head(young)
                  THEN [tier.entries[i] EXCEPT !.old = TRUE]
                  ELSE tier.entries[i]]]
        /\ UNCHANGED <<online, navOnLine, token, cache, queue, last, form>>
        /\ UNCHANGED <<exploreVars, inflight, served, widgetVars>>

\* Time passes: the least recently used record of a cache whose timestamp is
\* not yet old is now older than maxAgeSeconds; the entry it stands for was
\* written no later.
TimestampPastMaxAge(name) ==
    LET tier == tiers[name]
        first == CHOOSE i \in DOMAIN tier.entries :
                    /\ ~tier.entries[i].tsOld
                    /\ \A j \in 1..(i - 1) : tier.entries[j].tsOld
    IN  /\ \E i \in DOMAIN tier.entries : ~tier.entries[i].tsOld
        /\ tier.entries[first].old
        /\ tiers' = [tiers EXCEPT ![name].entries[first].tsOld = TRUE]
        /\ UNCHANGED <<online, navOnLine, token, cache, queue, last, form>>
        /\ UNCHANGED <<exploreVars, inflight, served, widgetVars>>

----------------------------------------------------------------------------
(* RouteProgressTracker.vue under RouteDetailView.vue *)

\* The user opens a route's page and fetchRoute answers: the view hands the
\* route's stops and the user's progress to the tracker
FetchRoute(stops, visited) ==
    /\ tracker = NoTracker
    /\ tracker' = [stops |-> stops, visited |-> visited]
    /\ UNCHANGED <<online, navOnLine, token, cache, queue, last, form>>
    /\ UNCHANGED <<exploreVars, expiryVars, scoreCard>>

\* The user leaves the route's page
LeaveRoute ==
    /\ tracker' = NoTracker
    /\ UNCHANGED <<online, navOnLine, token, cache, queue, last, form>>
    /\ UNCHANGED <<exploreVars, expiryVars, scoreCard>>

\* The check-in button: the tracker emits checkIn with the next stop, the
\* store posts it and replaces user_progress by the answer, in which the
\* server has added the stop to visited_stops; a failed post changes nothing
OnCheckIn(ok) ==
    /\ Rendered(tracker).checkIn
    /\ tracker' = IF ok
                  THEN [tracker EXCEPT !.visited =
                          Append(@, nextStop(tracker.stops, tracker.visited))]
                  ELSE tracker
    /\ UNCHANGED <<online, navOnLine, token, cache, queue, last, form>>
    /\ UNCHANGED <<exploreVars, expiryVars, scoreCard>>

\* The skip button: as the check-in, through skipStop
OnSkip(ok) ==
    /\ Rendered(tracker).skip
    /\ tracker' = IF ok
                  THEN [tracker EXCEPT !.visited =
                          Append(@, nextStop(tracker.stops, tracker.visited))]
                  ELSE tracker
    /\ UNCHANGED <<online, navOnLine, token, cache, queue, last, form>>
    /\ UNCHANGED <<exploreVars, expiryVars, scoreCard>>


----------------------------------------------------------------------------
(* QualityScoreCard.vue under CuratorReviewView.vue *)

\* The curator moves a slider: v-model stores the input's value, a string
SlideTo(slider, n) ==
    /\ JsString(Digits(n)) # scoreCard[slider]
    /\ scoreCard' =
         RefsChanged([scoreCard EXCEPT ![slider] = JsString(Digits(n)),
                                       !.emitted = <<>>],
                     Refs(scoreCard))
    /\ UNCHANGED <<online, navOnLine, token, cache, queue, last, form>>
    /\ UNCHANGED <<exploreVars, expiryVars, tracker>>

\* The curator edits the notes
TypeNotes(text) ==
    /\ text # scoreCard.notes
    /\ scoreCard' =
         RefsChanged([scoreCard EXCEPT !.notes = text, !.emitted = <<>>],
                     Refs(scoreCard))
    /\ UNCHANGED <<online, navOnLine, token, cache, queue, last, form>>
    /\ UNCHANGED <<exploreVars, expiryVars, tracker>>

\* The review view's load(): the item's stored quality score becomes score,
\* the card's model value
LoadScore(stored) ==
    /\ scoreCard' =
         RefsChanged(ModelValueChanged([scoreCard EXCEPT !.emitted = <<>>],
                                       stored),
                     Refs(scoreCard))
    /\ UNCHANGED <<online, navOnLine, token, cache, queue, last, form>>
    /\ UNCHANGED <<exploreVars, expiryVars, tracker>>

----------------------------------------------------------------------------

\* The service worker under browsing traffic
Next ==
    \/ ConnectivityChange
    \/ \E u \in Users : Login(u)
    \/ Logout
    \/ \E req \in Requests, st \in Statuses :
          \E slow \in (IF req \in ApiReads THEN BOOLEAN ELSE {FALSE}) :
              FetchEvent(req, st, slow)

Spec == Init /\ [][Next]_vars

\* The contribution form, its POST passing through the same route table
FormNext ==
    \/ ConnectivityChange
    \/ NavigatorOnLineChange
    \/ \E u \in Users : Login(u)
    \/ Logout
    \/ \E st \in MutationStatuses : Submit(st)
    \/ \E st \in MutationStatuses : Retry401(st)
    \/ SubmitSettle
    \/ ResetForm

FormSpec == Init /\ [][FormNext]_vars

\* The searches typed while a download is watched
BundleSearches == { <<>>, <<"church">> }

\* The explore view's offline download, the user editing the search box
BundleNext ==
    \/ NavigatorOnLineChange
    \/ \E str \in BundleSearches : SetSearch(str)
    \/ \E total \in ResultSetSizes : DownloadForOffline(total)
    \/ \E ok \in BOOLEAN : ListResponds(ok)
    \/ \E ok \in BOOLEAN : DetailResponds(ok)
    \/ \E failed \in SUBSET MediaUrls : MediaSettles(failed)

BundleSpec == Init /\ [][BundleNext]_vars

\* One download after the other with the filters left alone, every awaited
\* request settling in the end: the list and detail requests are answered or
\* fail, and each media fetch resolves or rejects
BundleLiveNext ==
    \/ \E total \in ResultSetSizes : DownloadForOffline(total)
    \/ \E ok \in BOOLEAN : ListResponds(ok)
    \/ \E ok \in BOOLEAN : DetailResponds(ok)
    \/ \E failed \in SUBSET MediaUrls : MediaSettles(failed)

BundleLiveSpec ==
    /\ Init /\ [][BundleLiveNext]_vars
    /\ WF_vars(\E ok \in BOOLEAN : ListResponds(ok))
    /\ WF_vars(\E ok \in BOOLEAN : DetailResponds(ok))
    /\ WF_vars(\E failed \in SUBSET MediaUrls : MediaSettles(failed))

\* The values the filters take
Searches == { <<>>, <<" ">>, <<"church">>, <<"church", " ">>, <<"chapel">> }
Ids == { <<>>, <<"3">> }
MediaKinds == {"", "images", "audio", "video", "documents", "text"}
Orderings == { <<"-created_at">>, <<"title">> }

FilterSpace ==
    { [ExploreInitial EXCEPT !.search = str, !.selectedTypeId = ty,
                             !.selectedMedia = mk, !.selectedOrdering = ord] :
        str \in Searches, ty \in Ids, mk \in MediaKinds, ord \in Orderings }

\* The manifest is absent, unreadable, or the one a download wrote under
\* some filters.
QueryInit ==
    /\ online = TRUE
    /\ navOnLine = TRUE
    /\ token = NoToken
    /\ cache = [n \in CacheNames |-> [k \in Keys |-> Absent]]
    /\ queue = <<>>
    /\ last = NoFetch
    /\ form = FormIdle
    /\ explore \in FilterSpace
    /\ offlineArea \in {NoItem, Garbage}
          \cup { ManifestText(currentQuerySnapshot(f), 1) : f \in FilterSpace }
    /\ download = NoDownload
    /\ indicator = Evaluate(offlineArea, explore)
    /\ tiers = NoEntries
    /\ inflight = {}
    /\ served = NoService
    /\ tracker = NoTracker
    /\ scoreCard = ScoreCardMounted

\* The filters of the explore view are edited over a stored manifest
QueryNext ==
    \/ \E str \in Searches : SetSearch(str)
    \/ \E ty \in Ids, mk \in MediaKinds, ord \in Orderings :
          SetFilter(ty, <<>>, <<>>, mk, ord)

QuerySpec == QueryInit /\ [][QueryNext]_vars

\* The images and tiles requested while the image cache ages and fills
ExpiringMedia ==
    MediaRequests \cup
        { Req("GET", "no-cors", "image", AppHost, <<"media", "b.jpg">>, FALSE, FALSE) }

\* The answers of the server that can differ for the strategy: none does
\* while the network is unreachable.
Answers == IF online THEN Statuses ELSE {"200"}

\* Which of expireEntries and updateTimestamp comes first can differ for a
\* read only when the record of the entry read has an old timestamp.
Races(req) ==
    LET tier == tiers[TierName(req)]
    IN  IF IsCached(tier, Key(req)) /\ RecordOf(tier, Key(req)).tsOld
        THEN BOOLEAN ELSE {TRUE}

\* The image cache under reads, writes and the passing of time
ExpiryNext ==
    \/ ConnectivityChange
    \/ \E req \in ExpiringMedia, st \in Answers :
          \E expireFirst \in Races(req) : Fetch(req, st, 1, FALSE, expireFirst)
    \/ \E name \in CacheNames : AgePastMaxAge(name)
    \/ \E name \in CacheNames : TimestampPastMaxAge(name)

ExpirySpec == Init /\ [][ExpiryNext]_vars

\* The API caches under reads, late responses and the passing of time
ApiCacheNext ==
    \/ ConnectivityChange
    \/ \E req \in ApiReads, st \in Answers :
          \E ver \in (IF online THEN Versions ELSE {1}),
             slow \in (IF isListLike(req) THEN BOOLEAN ELSE {FALSE}),
             expireFirst \in Races(req) :
                Fetch(req, st, ver, slow, expireFirst)
    \/ \E p \in inflight : ResponseArrives(p)
    \/ \E p \in inflight : ResponseLost(p)
    \/ \E name \in CacheNames : AgePastMaxAge(name)
    \/ \E name \in CacheNames : TimestampPastMaxAge(name)

ApiCacheSpec == Init /\ [][ApiCacheNext]_vars

\* Reads of the API that the views send: heritageService.list and .get and
\* the explore view's /categories/all/, and a read of one item with a page
\* parameter
ApiReadSpace ==
    { Req("GET", "cors", "", AppHost, <<"api", "v1">> \o p, TRUE, FALSE) :
        p \in { <<"heritage-items">>,
                <<"heritage-items", "7">>,
                <<"categories", "all">> } }
    \cup { Req("GET", "cors", "", AppHost,
                <<"api", "v1", "heritage-items", "7">>, TRUE, TRUE) }

\* The API caches under the reads of the views
ClassifyNext ==
    \/ ConnectivityChange
    \/ \E req \in ApiReadSpace, st \in Answers : Fetch(req, st, 1, FALSE, TRUE)
    \/ \E p \in inflight : ResponseArrives(p)
    \/ \E p \in inflight : ResponseLost(p)

ClassifySpec == Init /\ [][ClassifyNext]_vars

\* The route view: routes of up to MaxStops stops, numbered in list order or
\* listed in another order or twice, and the progress records the server may
\* hold for them: any two stops of the first three
MaxStops == 40
RouteLists ==
    { [i \in 1..n |-> i] : n \in 0..MaxStops } \cup {<<2, 1>>, <<1, 1, 2>>}
ProgressRecords ==
    {<<>>} \cup { <<a>> : a \in 1..3 } \cup { <<a, b>> : a, b \in 1..3 }

TrackerNext ==
    \/ \E stops \in RouteLists, visited \in ProgressRecords :
           FetchRoute(stops, visited)
    \/ LeaveRoute
    \/ \E ok \in BOOLEAN : OnCheckIn(ok)
    \/ \E ok \in BOOLEAN : OnSkip(ok)

TrackerSpec == Init /\ [][TrackerNext]_vars

\* The review page: slider positions the curator picks, notes, and the
\* quality scores the server may have stored for the item
SliderStops(max) == {0, 7, max}
NoteTexts == {"", "ok"}
StoredScores ==
    { [completeness_score |-> JsNumber(c), accuracy_score |-> JsNumber(a),
       media_quality_score |-> m, total_score |-> JsNumber(c + a),
       notes |-> "ok"] :
        c \in {0, 12}, a \in {0, 30}, m \in {JsNull, JsNumber(0)} }

ScoreCardNext ==
    \/ \E n \in SliderStops(MaxCompleteness) : SlideTo("completeness", n)
    \/ \E n \in SliderStops(MaxAccuracy) : SlideTo("accuracy", n)
    \/ \E n \in SliderStops(MaxMedia) : SlideTo("media", n)
    \/ \E text \in NoteTexts : TypeNotes(text)
    \/ \E stored \in StoredScores : LoadScore(stored)

ScoreCardSpec == Init /\ [][ScoreCardNext]_vars

----------------------------------------------------------------------------
(* Properties *)

ContributionQueued ==
    \E i \in DOMAIN queue :
        queue[i].method = "POST" /\ queue[i].key = Key(ContributionPost)

\* No request ever reaches the queue: the only route that carries the
\* BackgroundSyncPlugin is registered for GET and matches POST alone.
QueueNeverPopulated == queue = <<>>

\* C1 (as claimed): a contribution POST whose attempt failed for lack of
\* connectivity is in the durable queue.
C1_ConnectivityFailureQueued ==
    form.resp = "neterr" => ContributionQueued

\* C3 (as claimed): when the server answered the contribution POST with a
\* 4xx or 5xx status, submitContribution does not end in the success state,
\* and nothing was queued.
C3_ServerRejectionIsError ==
    (form.pc = "idle" /\ form.resp \in {"400", "401", "500"})
        => (~form.submittedSuccess /\ ~form.queuedOffline /\ queue = <<>>)

\* C4 (as claimed): when the contribution POST got no response for lack of
\* connectivity, submitContribution ends in the success state with the
\* queued-offline notice, whatever navigator.onLine reports.
C4_ConnectivityFailureDeferred ==
    (form.pc = "idle" /\ form.resp = "neterr")
        => (form.submittedSuccess /\ form.queuedOffline /\ ~form.alerted)

\* The claims' own reading of "path starts with a user-identity prefix"
OnIdentityPrefix(req) ==
    /\ Len(req.path) >= 3
    /\ SubSeq(req.path, 1, 2) = <<"api", "v1">>
    /\ req.path[3] \in {"auth", "users", "notifications"}
    /\ (Len(req.path) > 3 \/ req.slash)

WentToNetwork == last.network /\ last.source \in {"network", "error"}

NoTierTouched == last.source \notin CacheNames /\ last.stored = "none"

IdentityKeysUncached ==
    \A n \in CacheNames, k \in Keys :
        OnIdentityPrefix([path |-> k.path, slash |-> k.slash]) => cache[n][k] = Absent

\* C6 (as claimed): a request on a user-identity prefix always goes to the
\* network and touches no cache tier, whatever its method or mode.
C6_IdentityAlwaysNetwork ==
    OnIdentityPrefix(last.req) => (WentToNetwork /\ NoTierTouched)

\* C6 (amended): a request on a user-identity prefix is never answered from
\* nor stored into a cache tier, and it goes to the network unless it is a
\* GET navigation, which is answered with the precached application shell.
C6_IdentityBypassesTiers ==
    /\ IdentityKeysUncached
    /\ OnIdentityPrefix(last.req) =>
          /\ NoTierTouched
          /\ IF last.req.mode = "navigate" /\ last.req.method = "GET"
             THEN last.source = "precache" /\ last.body = "shell"
             ELSE WentToNetwork

\* C6 witness: a GET of an identity path answered by the network while the
\* session is logged in.
C6_Witness ==
    /\ OnIdentityPrefix(last.req)
    /\ last.req.method = "GET"
    /\ last.req.mode # "navigate"
    /\ last.tok \in Users
    /\ last.source = "network"

\* C7 (as claimed): a response fetched under one user's session is never
\* served from a cache to a request made under another session.
C7_NoCrossSessionHit ==
    (last.source \in CacheNames /\ last.body \in Users) => last.body = last.tok

\* C8 (as claimed): every POST, PUT, PATCH or DELETE under
\* /api/v1/contributions/ takes the queue route: network first, and enqueued
\* exactly when that attempt fails for lack of connectivity.
C8_MutationsTakeQueueRoute ==
    last.req \in ContributionMutations =>
        /\ last.route = "contributions"
        /\ last.network
        /\ (last.enqueued <=> last.source = "error")

IsOsmTileImage(req) ==
    /\ req.dest = "image"
    /\ Len(req.host) >= 3
    /\ SubSeq(req.host, Len(req.host) - 2, Len(req.host))
           = <<"tile", "openstreetmap", "org">>

\* C16 (as claimed): an image request to tile.openstreetmap.org or one of its
\* subdomains is handled by the map-tile route and its cache (cache first,
\* 30 days, 2000 entries) and by no other tier, the 7-day, 500-entry image
\* tier in particular.
C16_TilesInMapTileTier ==
    IsOsmTileImage(last.req) =>
        /\ last.route = "map-tiles"
        /\ last.source \in {"network", "error", "map-tiles-osm"}
        /\ last.stored \in {"none", "map-tiles-osm"}
        /\ \A k \in Keys :
              IsOsmTileImage([dest |-> "image", host |-> k.host])
                  => cache["images-v1"][k] = Absent

\* C17: a download requested while navigator.onLine is false is refused: it
\* sends no list, detail or media request, leaves the stored manifest as it
\* was, never sets offlineDownloading, and shows the must-be-online error.
C17_OfflineDownloadRefused ==
    (download.outcome # "none" /\ download.navOnLine = FALSE) =>
        /\ download.outcome = "refused"
        /\ download.lists = 0 /\ download.details = 0 /\ download.media = 0
        /\ offlineArea = download.before
        /\ ~explore.offlineDownloading
        /\ explore.offlineDownloadError = "explore.offline.mustBeOnline"

\* C17 witness: a download was refused while a manifest of an earlier
\* download was stored.
C17_Witness ==
    /\ download.outcome = "refused"
    /\ download.before.kind = "json"
    /\ offlineArea.kind = "json"

\* C18: no download fetches the detail of more than 500 items, and no
\* manifest records an itemCount above 500.
C18_ItemCeiling ==
    /\ download.details <= 500
    /\ download.totalItems <= 500
    /\ offlineArea.kind = "json" => offlineArea.itemCount <= 500

\* C18 witness: a download over a result set of 501 items completed with the
\* fifth page, 500 items bundled.
C18_Witness ==
    /\ download.outcome = "completed"
    /\ download.serverTotal = 501
    /\ download.page = 6
    /\ download.details = 500
    /\ offlineArea.itemCount = 500

\* C19: when a download completes, the manifest under the fixed key is the
\* one it wrote, and its itemCount is the number of items the fetched list
\* pages held, the detail of each of them fetched; it is the server's total
\* only when every item was bundled.
C19_ManifestCountsBundledItems ==
    download.outcome = "completed" =>
        /\ offlineArea.kind = "json"
        /\ offlineArea.itemCount = download.returned
        /\ download.details = download.returned
        /\ download.media = download.returned
        /\ download.serverTotal > download.returned
              => offlineArea.itemCount # download.serverTotal

\* C19 witness: a download cut short by the page ceiling replaced the
\* manifest of an earlier, smaller download.
C19_Witness ==
    /\ download.outcome = "completed"
    /\ download.before.kind = "json"
    /\ download.before.itemCount = 101
    /\ download.serverTotal = 501
    /\ offlineArea.itemCount = 500

\* The claims' own reading of the parameters of a view: the non-blank search
\* text, the chosen type, category, parish and ordering, and the flag of the
\* chosen media kind, as they are written in a JSON text
ViewParameters(f) ==
    LET text(key, chunks) ==
            IF chunks = <<>> THEN {}
            ELSE {[key |-> key, token |-> <<"\"">> \o chunks \o <<"\"">>]}
        flag(kind, key) ==
            IF f.selectedMedia = kind
            THEN {[key |-> key, token |-> <<"true">>]} ELSE {}
    IN  text("search", SelectSeq(f.search, LAMBDA c : c # " "))
        \cup text("heritage_type", f.selectedTypeId)
        \cup text("heritage_category", f.selectedCategoryId)
        \cup text("parish", f.selectedParishId)
        \cup text("ordering", f.selectedOrdering)
        \cup flag("images", "has_images") \cup flag("audio", "has_audio")
        \cup flag("video", "has_video") \cup flag("documents", "has_documents")
        \cup flag("text", "text_only")

\* C20: the check for an offline copy of the current view is true exactly
\* when a readable manifest is stored and its query has the parameters of
\* the current view, each with the same value; a parameter added, removed or
\* changed, a missing manifest and an unreadable one make it false.
C20_OfflineCopyIffSameQuery ==
    hasOfflineBundleForCurrentQuery(offlineArea, explore) <=>
        /\ offlineArea.kind = "json"
        /\ { offlineArea.query[i] : i \in DOMAIN offlineArea.query }
              = ViewParameters(explore)

\* C20 witness: the check is true for a view with a padded search text and a
\* media kind chosen.
C20_Witness ==
    /\ hasOfflineBundleForCurrentQuery(offlineArea, explore)
    /\ explore.search = <<"church", " ">>
    /\ explore.selectedMedia = "images"

\* C11 (as claimed): an entry older than its cache's max age is never served
\* from the cache by the network-first and cache-first strategies; the
\* stale-while-revalidate strategy serves it at most once more, and triggers
\* a refresh when it does.
C11_StaleNeverServed ==
    (served.source \in CacheNames /\ served.old) =>
        /\ served.tier = "api-detail-v1"
        /\ served.network
        /\ ~served.reused

\* k comes before j in the sequence of keys order
Precedes(order, k, j) ==
    \E a \in DOMAIN order, b \in DOMAIN order :
        a < b /\ order[a] = k /\ order[b] = j

KeysOf(entries) == [i \in DOMAIN entries |-> entries[i].key]

\* C12 (as claimed): after every step each cache holds at most maxEntries
\* entries, and the entries a write evicts for the ceiling are the least
\* recently inserted ones: each was written before every entry that stays.
C12_EvictsLeastRecentlyInserted ==
    [][\A n \in CacheNames :
          /\ Cardinality(CachedKeys(tiers'[n])) <= EntryCeiling
          /\ \A e \in EvictedKeys(tiers[n], tiers'[n]) :
                \A j \in CachedKeys(tiers[n]) \cap CachedKeys(tiers'[n]) :
                    Precedes(tiers[n].inserted, e, j)]_vars

\* C12 (amended): after every step each cache holds at most maxEntries
\* entries, and the entries a write evicts for the ceiling are the least
\* recently used ones: each was last written or read before every entry
\* that stays was.
C12_EvictsLeastRecentlyUsed ==
    [][\A n \in CacheNames :
          /\ Cardinality(CachedKeys(tiers'[n])) <= EntryCeiling
          /\ \A e \in EvictedKeys(tiers[n], tiers'[n]) :
                \A j \in CachedKeys(tiers[n]) \cap CachedKeys(tiers'[n]) :
                    Precedes(KeysOf(tiers[n].entries), e, j)]_vars

\* C12 witness: a write to the full image cache evicted an entry.
C12_Witness ==
    /\ served.tier = "images-v1"
    /\ served.source = "network"
    /\ served.stored
    /\ served.evicted # {}
    /\ Cardinality(CachedKeys(tiers["images-v1"])) = EntryCeiling

\* C13: a cache-first request whose key has a cached entry no older than
\* the max age (for a map tile: any cached entry) is answered from the cache
\* with no network request; the network is asked only on a miss, and a
\* successful answer to it is then in the cache under the request's key.
C13_CacheFirstHitsSkipNetwork ==
    served.tier \in {"images-v1", "map-tiles-osm"} =>
        /\ (served.found /\ (~served.old \/ IsOsmTileImage(served.req)))
              => (served.source = served.tier /\ ~served.network)
        /\ served.network => (~served.found \/ served.old)
        /\ (served.source = "network" /\ served.status \in {"0", "200"})
              => served.stored

\* C13 witness: an image cached and not yet old was answered from the cache
\* while the network was reachable.
C13_Witness ==
    /\ served.tier = "images-v1"
    /\ served.req.host = AppHost
    /\ served.found /\ ~served.old
    /\ served.online
    /\ served.source = "images-v1"

\* C14: a detail request whose key has a cached entry within the max age is
\* answered from the cache without waiting, a network request being sent on
\* every such hit; a request without a cached entry waits for the network;
\* and a successful response, awaited or arriving later, is in the cache
\* under its key afterwards.
C14_StaleWhileRevalidate ==
    /\ [](served.tier = "api-detail-v1" =>
            /\ (served.found /\ ~served.old)
                  => (served.source = served.tier /\ ~served.waited /\ served.network)
            /\ ~served.found
                  => (served.waited /\ served.source \in {"network", "error"})
            /\ (served.source = "network" /\ served.status = "200") => served.stored)
    /\ [][\A p \in inflight :
            (p \notin inflight' /\ online /\ p.name = "api-detail-v1"
                /\ p.resp.status = "200")
              => /\ IsCached(tiers'[p.name], p.key)
                 /\ RecordOf(tiers'[p.name], p.key).ver = p.resp.ver
                 /\ ~RecordOf(tiers'[p.name], p.key).old]_vars

\* C14 witness: a detail request was answered with the cached version, and
\* the response of its revalidation has since replaced it with another.
C14_Witness ==
    /\ served.tier = "api-detail-v1"
    /\ served.found /\ ~served.old
    /\ served.source = "api-detail-v1"
    /\ inflight = {}
    /\ IsCached(tiers["api-detail-v1"], Key(served.req))
    /\ RecordOf(tiers["api-detail-v1"], Key(served.req)).ver # served.ver

\* C15 (as claimed): a list request answered by the network has its
\* successful response in the cache; when the network fails or has not
\* answered within the timeout, the cached entry of the key is returned if
\* there is one and the request fails otherwise.
C15_FallbackOrFail ==
    served.tier = "api-list-v1" =>
        /\ (served.source = "network" /\ served.status = "200") => served.stored
        /\ (~served.online \/ served.slow) =>
              IF served.found THEN served.source = served.tier
              ELSE served.source = "error"

\* C15 (amended): a list request answered by the network has its successful
\* response in the cache; when the network fails or has not answered within
\* the timeout, the cached entry of the key is returned if there is one
\* within the max age; otherwise the request fails on a network failure,
\* and on a timeout the caller goes on waiting and gets the network's
\* answer.  A response arriving after the cache answered changes nothing of
\* what the caller got; it is put in the cache.
C15_FallbackOrWait ==
    /\ [](served.tier = "api-list-v1" =>
            /\ (served.source = "network" /\ served.status = "200") => served.stored
            /\ (~served.online \/ served.slow) =>
                  IF served.found /\ ~served.old
                  THEN served.source = served.tier /\ ~served.waited
                  ELSE IF served.online
                  THEN served.source = "network" /\ served.waited
                  ELSE served.source = "error")
    /\ [][\A p \in inflight :
            (p \notin inflight' /\ p.name = "api-list-v1") =>
                /\ served' = served
                /\ (online /\ p.resp.status = "200") =>
                      /\ IsCached(tiers'[p.name], p.key)
                      /\ RecordOf(tiers'[p.name], p.key).ver = p.resp.ver]_vars

\* C15 witness: the timeout fired with nothing cached for the key, and the
\* caller got the network's late answer.
C15_Witness ==
    /\ served.tier = "api-list-v1"
    /\ served.slow /\ served.online
    /\ ~served.found
    /\ served.waited
    /\ served.source = "network"

----------------------------------------------------------------------------
(* RouteProgressTracker *)

\* round(100 * visited / total), a half rounding up; 0 when there are no stops
RoundedPercent(visited, all) ==
    IF all = 0 THEN 0 ELSE (200 * visited + all) \div (2 * all)

\* C21: for any list of stops and any progress record the tracker shows the
\* number of visited stops, the number of stops, the percent
\* round(100 * visited / total) (0 without stops) and, as next, the first stop
\* in list order that is not visited; when every stop is visited there is no
\* next stop and no check-in or skip button.
C21_TrackerShows ==
    LET shown == Rendered(tracker)
        stops == tracker.stops
        seen == visitedIds(tracker.visited)
    IN  /\ shown.visited = Len(tracker.visited)
        /\ shown.total = Len(stops)
        /\ shown.percent = RoundedPercent(Len(tracker.visited), Len(stops))
        /\ \/ /\ shown.next = NoStop
              /\ \A i \in 1..Len(stops) : stops[i] \in seen
           \/ \E i \in 1..Len(stops) :
                 /\ shown.next = stops[i]
                 /\ stops[i] \notin seen
                 /\ \A j \in 1..(i - 1) : stops[j] \in seen
        /\ (\A i \in 1..Len(stops) : stops[i] \in seen)
             => ~shown.checkIn /\ ~shown.skip

----------------------------------------------------------------------------
(* QualityScoreCard *)

\* The number a score stands for, whether a ref holds it as a number or as
\* the slider's string
ScoreOf(val) == IF val.t = "number" THEN val.v[1] ELSE ParseDigits(val.v)

\* C22: after any sequence of changes to the three sliders or the notes, the
\* displayed total is the sum of the three scores the card shows, and every
\* update:modelValue event carries a total_score that is the sum of the three
\* scores it carries.
C22_TotalIsSumOfScores ==
    /\ totalScore(scoreCard) =
         JsNumber(ScoreOf(scoreCard.completeness) + ScoreOf(scoreCard.accuracy)
                  + ScoreOf(scoreCard.media))
    /\ \A i \in 1..Len(scoreCard.emitted) :
         LET event == scoreCard.emitted[i]
         IN  /\ event.completeness_score.t = "number"
             /\ event.accuracy_score.t = "number"
             /\ event.media_quality_score.t = "number"
             /\ event.total_score =
                  JsNumber(event.completeness_score.v[1]
                           + event.accuracy_score.v[1]
                           + event.media_quality_score.v[1])

\* All three sliders have been moved off zero, the last move emitted an
\* event while its ref held the slider's string, and notes were typed
C22_Witness ==
    /\ Len(scoreCard.emitted) = 2
    /\ scoreCard.emitted[1].total_score = JsNumber(77)
    /\ scoreCard.notes = "ok"
    /\ C22_TotalIsSumOfScores

----------------------------------------------------------------------------
(* The bundle download's page traversal *)

\* A step of a running download that sends a further list request
FurtherPageRequested ==
    /\ download.outcome = "running"
    /\ Len(download'.requests) > Len(download.requests)

C24_ManifestQueryIsDownloadedQuery ==
    download.outcome = "completed" =>
        offlineArea = ManifestText(download.baseParams, offlineArea.itemCount)

----------------------------------------------------------------------------
(* Classification of API reads *)

\* The claims' own reading of a URL under the API root: the values that
\* identify one resource, and whether the URL ends in one
ResourceIdentifiers == {"7"}

AddressesOneResource(req) ==
    /\ Len(req.path) > 2
    /\ req.path[Len(req.path)] \in ResourceIdentifiers

\* C25: every GET under /api/v1/ outside the user-identity prefixes is
\* assigned exactly one tier: api-list exactly when the URL enumerates a
\* collection (it does not end in a resource identifier) or carries a page
\* parameter, api-detail exactly when it addresses a single resource by its
\* identifier and carries no page parameter.
C25_ListOrDetail ==
    (served.req # NoReq /\ ~OnIdentityPrefix(served.req)) =>
        /\ served.tier \in {"api-list-v1", "api-detail-v1"}
        /\ served.tier = "api-list-v1"
              <=> (~AddressesOneResource(served.req) \/ served.req.page)
        /\ served.tier = "api-detail-v1"
              <=> (AddressesOneResource(served.req) /\ ~served.req.page)

----------------------------------------------------------------------------
(* Media pre-fetch *)

\* C26: whichever of an item's media fetches fail, the download goes on with
\* the remaining items and pages: the step that settles them does not end the
\* download as failed and shows no download error, the item stays counted,
\* and a download that completes has written its manifest with every item
\* counted.
C26_MediaFailuresSwallowed ==
    /\ [][(download.pc = "media" /\ download' # download) =>
            /\ download'.outcome \in {"running", "completed"}
            /\ explore'.offlineDownloadError = "null"
            /\ download'.totalItems >= download.totalItems
            /\ download'.outcome = "completed" =>
                  offlineArea' = ManifestText(currentQuerySnapshot(explore),
                                              download.totalItems)]_vars
    /\ [](download.outcome = "completed" =>
            /\ offlineArea.kind = "json"
            /\ offlineArea.itemCount = download.returned)

\* C26 witness: a download over 101 items, two pages, completed although
\* media fetches failed on the way: the manifest counts all 101 items and no
\* error is shown.
C26_Witness ==
    /\ download.outcome = "completed"
    /\ download.mediaFailed
    /\ download.serverTotal = 101
    /\ offlineArea.kind = "json"
    /\ offlineArea.itemCount = 101
    /\ explore.offlineDownloadError = "null"

----------------------------------------------------------------------------
(* The queued-offline notice *)

\* C27: whenever the form shows the queued-offline success notice for a
\* submission, that submission is in the durable queue (nothing leaves the
\* queue in this model, so a replayed submission would still be counted).
C27_NoticeOnlyForQueued ==
    (form.submittedSuccess /\ form.queuedOffline) => ContributionQueued

\* C28: in every state the rendered 'offline ready' indicator equals the
\* comparison of the manifest in storage with the current query; so right
\* after a download completed, with the query as it was, the indicator is
\* shown, also when no manifest was stored before
C28_IndicatorFollowsStorage ==
    indicator.value = hasOfflineBundleForCurrentQuery(offlineArea, explore)

\* The requests a download has sent and the items it has counted
Fetched(d) == <<d.lists, d.details, d.media, d.totalItems, d.requests>>

\* C29: a download that failed stopped at the request that was rejected: it
\* sent nothing after it, the download error is shown, and the manifest in
\* storage is the one that was there when the download started, neither
\* replaced nor removed; what was fetched before the failure stays fetched
C29_FailedDownloadKeepsManifest ==
    /\ [](download.outcome = "failed" =>
             /\ download.pc = "idle"
             /\ explore.offlineDownloadError = "explore.offline.downloadError"
             /\ offlineArea = download.before)
    /\ [][(download.outcome = "running" /\ download'.outcome = "failed") =>
             /\ download.pc \in {"list", "detail"}
             /\ Fetched(download') = Fetched(download)
             /\ offlineArea' = offlineArea]_vars

\* C29 witness: the detail request of an item on the second page was
\* rejected, the items before it fetched with their media, and the manifest
\* of an earlier download is still the one in storage
C29_Witness ==
    /\ download.outcome = "failed"
    /\ download.lists = 2
    /\ download.details = download.media + 1
    /\ download.media > pageSize
    /\ download.before.kind = "json"
    /\ offlineArea = download.before

\* What a call of downloadForOffline fixes when it starts
StartedWith(d) == <<d.before, d.baseParams, d.serverTotal, d.navOnLine>>

====
